---------------------------- MODULE Spec2Model ----------------------------
(***************************************************************************)
(* President's Inn reservations dashboard (src/app.py).                    *)
(*                                                                         *)
(* The script is re-executed from top to bottom on every interaction.      *)
(* One run is: load_data -> load_dataframe (memoised by st.cache_data) ->  *)
(* sidebar filters -> df_filtered -> KPIs -> charts -> insights ->         *)
(* scorecard -> footer -> refresh button.                                  *)
(*                                                                         *)
(* Representation.                                                         *)
(*   - a header / column name is a sequence of one-character strings, so   *)
(*     that str.strip() and str.title() are computed, not assumed;         *)
(*   - a date is the day number within 2024 (1 = 2024-01-01); a timestamp  *)
(*     counts the half days since the midnight before it, so that a cell   *)
(*     can carry a time of day; NaT is a blank date cell;                  *)
(*   - a DataFrame is [columns, index, rows]: rows[k] is the sequence of   *)
(*     cells of the k-th row, index[k] its pandas index label;             *)
(*   - a Room Type cell is the rank of the label among the labels;         *)
(*   - a mean is the fraction [num, den]; den = 0 is pandas' NaN;          *)
(*   - a percentile is kept multiplied by 100, which makes the linear      *)
(*     interpolation of quantile(0.01) and quantile(0.99) exact.           *)
(***************************************************************************)
EXTENDS Integers, Sequences, FiniteSets, TLC

VARIABLES
    f,                    \* the source file handed to load_dataframe, or NoFile
    cache,                \* st.cache_data of load_dataframe: file -> returned value
    loaderRan,            \* the body of load_dataframe executed in the last run
    stage,                \* where the last run of the script ended
    missing_columns,      \* the concepts named by the "Colunas ausentes" error
    warning,              \* the count shown by st.warning in the last run (0: none)
    df,                   \* the Canonical Table of the last run
    date_range,           \* value of the date_input widget
    selected_room_types,  \* value of the room-type multiselect
    selected_guests,      \* value of the guest-count multiselect
    df_filtered,          \* the Filtered Table of the last run
    kpis,                 \* the six KPIs of the last run
    insights,             \* the insights of the last run
    uploads               \* files uploaded so far

vars == <<f, cache, loaderRan, stage, missing_columns, warning, df, date_range,
          selected_room_types, selected_guests, df_filtered, kpis, insights, uploads>>

-----------------------------------------------------------------------------
(* Bounds of the explored inputs.                                          *)

\* rows of a file whose loading is explored exhaustively
MaxLoadRows == 3
\* rows of a file used in an interactive session
MaxRows == 2
\* uploads in one explored session
MaxUploads == 2

-----------------------------------------------------------------------------
(* Small helpers on sequences and sets.                                    *)

Range(s) == {s[i] : i \in DOMAIN s}

RECURSIVE SumSeq(_)
SumSeq(s) == IF s = <<>> THEN 0 ELSE Head(s) + SumSeq(Tail(s))

RECURSIVE SeqsUpTo(_, _)
SeqsUpTo(S, n) ==
    IF n = 0 THEN {<<>>}
    ELSE LET shorter == SeqsUpTo(S, n - 1)
         IN  shorter \cup {Append(s, x) : s \in {t \in shorter : Len(t) = n - 1}, x \in S}

\* sorted(list(set)) for a set of integers or of strings of one word
RECURSIVE SortedInts(_)
SortedInts(S) ==
    IF S = {} THEN <<>>
    ELSE LET m == CHOOSE x \in S : \A y \in S : x <= y
         IN  <<m>> \o SortedInts(S \ {m})

-----------------------------------------------------------------------------
(* Header normalisation: df.columns.str.strip().str.title()                *)

LowerLetters ==
    <<"a","b","c","d","e","f","g","h","i","j","k","l","m","n","o","p","q","r","s","t","u","v","w","x","y","z","á","í","ó","ú">>
UpperLetters ==
    <<"A","B","C","D","E","F","G","H","I","J","K","L","M","N","O","P","Q","R","S","T","U","V","W","X","Y","Z","Á","Í","Ó","Ú">>

IsCased(c) == c \in Range(LowerLetters) \cup Range(UpperLetters)

ToUpper(c) ==
    IF c \in Range(LowerLetters)
    THEN UpperLetters[CHOOSE i \in DOMAIN LowerLetters : LowerLetters[i] = c]
    ELSE c

ToLower(c) ==
    IF c \in Range(UpperLetters)
    THEN LowerLetters[CHOOSE i \in DOMAIN UpperLetters : UpperLetters[i] = c]
    ELSE c

IsSpace(c) == c \in {" ", "\t"}

RECURSIVE LStrip(_)
LStrip(s) == IF s # <<>> /\ IsSpace(Head(s)) THEN LStrip(Tail(s)) ELSE s

RECURSIVE RStrip(_)
RStrip(s) ==
    IF s # <<>> /\ IsSpace(s[Len(s)]) THEN RStrip(SubSeq(s, 1, Len(s) - 1)) ELSE s

Strip(s) == RStrip(LStrip(s))

\* str.title(): a cased character is upper-cased when the character before it
\* is not cased, lower-cased otherwise; other characters are kept.
Title(s) ==
    [i \in DOMAIN s |->
        IF ~IsCased(s[i]) THEN s[i]
        ELSE IF i > 1 /\ IsCased(s[i - 1]) THEN ToLower(s[i]) ELSE ToUpper(s[i])]

NormalizeHeader(h) == Title(Strip(h))

-----------------------------------------------------------------------------
(* Canonical column names and their accepted synonyms.                     *)

ArrivalDate == <<"A","r","r","i","v","a","l"," ","D","a","t","e">>
DepartureDate == <<"D","e","p","a","r","t","u","r","e"," ","D","a","t","e">>
DailyRate == <<"D","a","i","l","y"," ","R","a","t","e">>
RoomType == <<"R","o","o","m"," ","T","y","p","e">>
NoOfGuests == <<"N","o"," ","O","f"," ","G","u","e","s","t","s">>
Room == <<"R","o","o","m">>

\* the derived columns
Nights == <<"N","i","g","h","t","s">>
Revenue == <<"R","e","v","e","n","u","e">>
Month == <<"M","o","n","t","h">>
Year == <<"Y","e","a","r">>
Weekday == <<"W","e","e","k","d","a","y">>

\* the dict of line 119, in its insertion order
aliases == <<
   [canonical_name |-> ArrivalDate,
    possible_names |-> <<
        <<"A","r","r","i","v","a","l"," ","D","a","t","e">>,
        <<"A","r","r","i","v","a","l">>,
        <<"C","h","e","c","k","-","I","n">>,
        <<"D","a","t","a"," ","D","e"," ","C","h","e","g","a","d","a">>,
        <<"C","h","e","c","k","i","n">> >>],
   [canonical_name |-> DepartureDate,
    possible_names |-> <<
        <<"D","e","p","a","r","t","u","r","e"," ","D","a","t","e">>,
        <<"D","e","p","a","r","t","u","r","e">>,
        <<"C","h","e","c","k","-","O","u","t">>,
        <<"D","a","t","a"," ","D","e"," ","S","a","í","d","a">>,
        <<"C","h","e","c","k","o","u","t">> >>],
   [canonical_name |-> DailyRate,
    possible_names |-> <<
        <<"D","a","i","l","y"," ","R","a","t","e">>,
        <<"A","d","r">>,
        <<"T","a","r","i","f","a"," ","D","i","á","r","i","a">>,
        <<"R","a","t","e">>,
        <<"P","r","i","c","e">> >>],
   [canonical_name |-> RoomType,
    possible_names |-> <<
        <<"R","o","o","m"," ","T","y","p","e">>,
        <<"T","y","p","e">>,
        <<"T","i","p","o"," ","D","e"," ","Q","u","a","r","t","o">>,
        <<"C","a","t","e","g","o","r","y">> >>],
   [canonical_name |-> NoOfGuests,
    possible_names |-> <<
        <<"N","o"," ","O","f"," ","G","u","e","s","t","s">>,
        <<"G","u","e","s","t","s">>,
        <<"H","ó","s","p","e","d","e","s">>,
        <<"P","a","x">> >>],
   [canonical_name |-> Room,
    possible_names |-> <<
        <<"R","o","o","m">>,
        <<"R","o","o","m"," ","N","u","m","b","e","r">>,
        <<"Q","u","a","r","t","o">>,
        <<"N","ú","m","e","r","o"," ","D","o"," ","Q","u","a","r","t","o">> >>] >>

\* the value None of first_present
None == <<>>

\* the last name of `possible` that is a column, instead of the first
RECURSIVE first_present_Last(_, _)
first_present_Last(possible, columns) ==
    IF possible = <<>> THEN None
    ELSE IF possible[Len(possible)] \in Range(columns) THEN possible[Len(possible)]
    ELSE first_present_Last(SubSeq(possible, 1, Len(possible) - 1), columns)

\* first_present(possible): the first name of `possible` that is a column
RECURSIVE first_present(_, _)
first_present(possible, columns) ==
    IF possible = <<>> THEN None
    ELSE IF Head(possible) \in Range(columns) THEN Head(possible)
    ELSE first_present(Tail(possible), columns)

\* the loop left at the first canonical name without a column
missing_of_FirstOnly(columns) ==
    LET all == SelectSeq([i \in DOMAIN aliases |-> aliases[i].canonical_name],
                         LAMBDA c : \E i \in DOMAIN aliases :
                            /\ aliases[i].canonical_name = c
                            /\ first_present(aliases[i].possible_names, columns) = None)
    IN  IF all = <<>> THEN all ELSE <<all[1]>>

\* the loop of lines 138-143: the canonical names left without a column
missing_of(columns) ==
    SelectSeq([i \in DOMAIN aliases |-> aliases[i].canonical_name],
              LAMBDA c : \E i \in DOMAIN aliases :
                            /\ aliases[i].canonical_name = c
                            /\ first_present(aliases[i].possible_names, columns) = None)

\* column_mapping of lines 138-143, applied by df.rename to one column name
rename_column(name, columns) ==
    IF \E i \in DOMAIN aliases : first_present(aliases[i].possible_names, columns) = name
    THEN LET i == CHOOSE j \in DOMAIN aliases :
                     first_present(aliases[j].possible_names, columns) = name
         IN  aliases[i].canonical_name
    ELSE name

-----------------------------------------------------------------------------
(* Dates and timestamps of the year 2024.                                  *)

\* a blank date cell, which pd.to_datetime turns into NaT
NaT == 0

\* pd.to_datetime keeps the time of day of a cell: a timestamp counts ticks
\* of half a day
TicksPerDay == 2

\* the timestamps of day n (1 = 2024-01-01) at 00:00 and at 12:00
Day(n) == n * TicksPerDay
Noon(n) == Day(n) + TicksPerDay \div 2

\* dt.date: the day a timestamp falls in
date_of(t) == t \div TicksPerDay

\* dt.days: the whole days of a difference of timestamps, rounded down
days_of(delta) == delta \div TicksPerDay

DaysInMonth == <<31, 29, 31, 30, 31, 30, 31, 31, 30, 31, 30, 31>>

RECURSIVE MonthNumber(_, _)
MonthNumber(d, m) ==
    IF m = 12 \/ d <= DaysInMonth[m] THEN m ELSE MonthNumber(d - DaysInMonth[m], m + 1)

\* dt.to_period('M'): the year-month bucket
to_period_M(d) ==
    <<"2024-01", "2024-02", "2024-03", "2024-04", "2024-05", "2024-06",
      "2024-07", "2024-08", "2024-09", "2024-10", "2024-11", "2024-12">>[MonthNumber(date_of(d), 1)]

\* dt.year
year_of(d) == 2024

\* dt.day_name(); 2024-01-01 is a Monday
day_name(d) ==
    <<"Monday", "Tuesday", "Wednesday", "Thursday", "Friday", "Saturday", "Sunday">>[((date_of(d) - 1) % 7) + 1]

-----------------------------------------------------------------------------
(* DataFrames.                                                             *)

NoTable == [columns |-> <<>>, index |-> <<>>, rows |-> <<>>]

\* pd.read_excel: the header row becomes the columns, the index is 0..n-1
read_excel(file) ==
    [columns |-> file.headers,
     index   |-> [k \in DOMAIN file.rows |-> k - 1],
     rows    |-> file.rows]

\* df.empty
IsEmpty(d) == Len(d.rows) = 0 \/ Len(d.columns) = 0

Col(d, name) == CHOOSE i \in DOMAIN d.columns : d.columns[i] = name

\* df[name] at position k
Cell(d, k, name) == d.rows[k][Col(d, name)]

\* df[name] as a list
Column(d, name) == [k \in DOMAIN d.rows |-> Cell(d, k, name)]

\* df[mask]: the rows at the positions of `keep`, in their order, index kept
SelectRows(d, keep) ==
    LET ps == SortedInts(keep)
    IN  [columns |-> d.columns,
         index   |-> [j \in DOMAIN ps |-> d.index[ps[j]]],
         rows    |-> [j \in DOMAIN ps |-> d.rows[ps[j]]]]

\* df[name] = values, for a new column
AddColumn(d, name, values) ==
    [columns |-> Append(d.columns, name),
     index   |-> d.index,
     rows    |-> [k \in DOMAIN d.rows |-> Append(d.rows[k], values[k])]]

-----------------------------------------------------------------------------
(* load_dataframe, step by step.                                           *)

\* line 116 and line 151: headers normalised, then renamed to canonical names
Normalized(d) ==
    [d EXCEPT !.columns = [i \in DOMAIN d.columns |-> NormalizeHeader(d.columns[i])]]

Renamed(d) ==
    [d EXCEPT !.columns = [i \in DOMAIN d.columns |-> rename_column(d.columns[i], d.columns)]]

\* line 162: dropna(subset=["Arrival Date", "Departure Date"])
DropNaDates(d) ==
    SelectRows(d, {k \in DOMAIN d.rows :
                      Cell(d, k, ArrivalDate) # NaT /\ Cell(d, k, DepartureDate) # NaT})

\* the mask with < for <=
invalid_dates_Strict(d) ==
    {k \in DOMAIN d.rows : Cell(d, k, DepartureDate) < Cell(d, k, ArrivalDate)}

\* line 165: the positions of the mask Departure Date <= Arrival Date
invalid_dates(d) ==
    {k \in DOMAIN d.rows : Cell(d, k, DepartureDate) <= Cell(d, k, ArrivalDate)}

\* lines 166-168: df[~invalid_dates]
DropInvalidDates(d) == SelectRows(d, DOMAIN d.rows \ invalid_dates(d))

\* lines 171-175
Derived(d) ==
    LET n  == [k \in DOMAIN d.rows |->
                  days_of(Cell(d, k, DepartureDate) - Cell(d, k, ArrivalDate))]
        d1 == AddColumn(d, Nights, n)
        d2 == AddColumn(d1, Revenue, [k \in DOMAIN d.rows |-> Cell(d, k, DailyRate) * n[k]])
        d3 == AddColumn(d2, Month, [k \in DOMAIN d.rows |-> to_period_M(Cell(d, k, ArrivalDate))])
        d4 == AddColumn(d3, Year, [k \in DOMAIN d.rows |-> year_of(Cell(d, k, ArrivalDate))])
    IN  AddColumn(d4, Weekday, [k \in DOMAIN d.rows |-> day_name(Cell(d, k, ArrivalDate))])

\* the quantile with interpolation "lower": the sorted value at the position
Quantile100_Lower(values, q) ==
    LET xs == SortSeq(values, LAMBDA a, b : a < b)
    IN  100 * xs[((q * (Len(xs) - 1)) \div 100) + 1]

\* Series.quantile(q/100) with linear interpolation, multiplied by 100:
\* the position is q*(n-1)/100, between the sorted values lo and lo+1.
Quantile100(values, q) ==
    LET xs   == SortSeq(values, LAMBDA a, b : a < b)
        pos  == q * (Len(xs) - 1)
        lo   == (pos \div 100) + 1
        frac == pos % 100
    IN  IF frac = 0 THEN 100 * xs[lo]
        ELSE 100 * xs[lo] + frac * (xs[lo + 1] - xs[lo])

\* the mask with strict comparisons
InRateBand_Strict(rate, q1_rate, q99_rate) == 100 * rate > q1_rate /\ 100 * rate < q99_rate

\* the mask of line 180
InRateBand(rate, q1_rate, q99_rate) == 100 * rate >= q1_rate /\ 100 * rate <= q99_rate

\* lines 178-180; the quantile of an empty column is NaN and keeps no row
TrimOutliers(d) ==
    IF Len(d.rows) = 0 THEN d
    ELSE LET q1_rate  == Quantile100(Column(d, DailyRate), 1)
             q99_rate == Quantile100(Column(d, DailyRate), 99)
         IN  SelectRows(d, {k \in DOMAIN d.rows :
                               InRateBand(Cell(d, k, DailyRate), q1_rate, q99_rate)})

\* the table after the date validation, on which the percentiles are taken
Validated(file) == DropInvalidDates(DropNaDates(Renamed(Normalized(read_excel(file)))))

\* load_dataframe(f): how it ends ("ok": it returns df; otherwise the st.error
\* it shows before st.stop()), the table it returns and the warning it shows
load_dataframe(file) ==
    LET raw  == read_excel(file)
        norm == Normalized(raw)
        miss == missing_of(norm.columns)
    IN  IF IsEmpty(raw)
        THEN [outcome |-> "EmptyFile", missing |-> <<>>, warning |-> 0, df |-> NoTable]
        ELSE IF miss # <<>>
        THEN [outcome |-> "MissingColumns", missing |-> miss, warning |-> 0, df |-> NoTable]
        ELSE LET dated == DropNaDates(Renamed(norm))
             IN  [outcome |-> "ok",
                  missing |-> <<>>,
                  warning |-> Cardinality(invalid_dates(dated)),
                  df      |-> TrimOutliers(Derived(DropInvalidDates(dated)))]

-----------------------------------------------------------------------------
(* The sidebar filters and the Filtered Table.                             *)

\* A Room Type cell holds the rank of its label in sorted() order:
\* Standard, Suite.
Standard == 1
Suite == 2
RoomTypeOrder == <<Standard, Suite>>

\* the months in the order groupby("Month") gives them
MonthOrder == [m \in 1..12 |-> to_period_M(Day(SumSeq(SubSeq(DaysInMonth, 1, m - 1)) + 1))]

SeqMin(s) == CHOOSE x \in Range(s) : \A y \in Range(s) : x <= y
SeqMax(s) == CHOOSE x \in Range(s) : \A y \in Range(s) : x >= y

\* lines 238-239
min_date(d) == date_of(SeqMin(Column(d, ArrivalDate)))
max_date(d) == date_of(SeqMax(Column(d, ArrivalDate)))

\* lines 250 and 258, without the leading "Todos"
room_types(d) == Range(Column(d, RoomType))
guest_counts(d) == Range(Column(d, NoOfGuests))

\* A multiselect value: whether the list holds the sentinel "Todos", and the
\* set of the other options it holds.  default=["Todos"].
Todos == [todos |-> TRUE, values |-> {}]

Selections(options) == [todos : BOOLEAN, values : SUBSET options]

\* the condition without the test that the list is not empty
Restricts_NoEmptyTest(selected) == ~selected.todos

\* "Todos" not in selected and selected  (lines 275 and 278)
Restricts(selected) == ~selected.todos /\ (selected.todos \/ selected.values # {})

\* lines 266-279
apply_filters(d, dr, srt, sg) ==
    LET by_date  == IF Len(dr) = 2
                    THEN {k \in DOMAIN d.rows :
                             /\ date_of(Cell(d, k, ArrivalDate)) >= dr[1]
                             /\ date_of(Cell(d, k, ArrivalDate)) <= dr[2]}
                    ELSE DOMAIN d.rows
        by_room  == IF Restricts(srt)
                    THEN {k \in by_date : Cell(d, k, RoomType) \in srt.values}
                    ELSE by_date
        by_guest == IF Restricts(sg)
                    THEN {k \in by_room : Cell(d, k, NoOfGuests) \in sg.values}
                    ELSE by_room
    IN  SelectRows(d, by_guest)

-----------------------------------------------------------------------------
(* KPIs (lines 282-287).  A mean or a ratio is [num, den]; den = 0 is NaN. *)

Frac(n, d) == [num |-> n, den |-> d]
Zero == Frac(0, 1)
IsNaN(x) == x.den = 0
IsZero(x) == x.den # 0 /\ x.num = 0

\* Series.mean()
Mean(values) == Frac(SumSeq(values), Len(values))

\* the occupancy with numerator and denominator exchanged
occupancy_rate_Swapped(filtered, d) ==
    IF Len(d.rows) > 0 THEN Frac(Len(d.rows) * 100, Len(filtered.rows)) ELSE Zero

\* the occupancy of line 286, in percent
occupancy_rate(filtered, d) ==
    IF Len(d.rows) > 0 THEN Frac(Len(filtered.rows) * 100, Len(d.rows)) ELSE Zero

\* line 287
revpar_of(filtered) ==
    LET rooms == Cardinality(Range(Column(filtered, Room)))
    IN  IF rooms > 0 THEN Frac(SumSeq(Column(filtered, Revenue)), rooms) ELSE Zero

compute_kpis(filtered, d) ==
    [total_reservations |-> Len(filtered.rows),
     total_revenue      |-> SumSeq(Column(filtered, Revenue)),
     avg_daily_rate     |-> Mean(Column(filtered, DailyRate)),
     avg_length_stay    |-> Mean(Column(filtered, Nights)),
     occupancy_rate     |-> occupancy_rate(filtered, d),
     revpar             |-> revpar_of(filtered)]

NoKpis ==
    [total_reservations |-> 0, total_revenue |-> 0, avg_daily_rate |-> Frac(0, 0),
     avg_length_stay |-> Frac(0, 0), occupancy_rate |-> Zero, revpar |-> Zero]

-----------------------------------------------------------------------------
(* Insights (lines 459-490).  A value is <<x>>; <<>> is "never derived".   *)

\* groupby(key)[col], for the group of key value g
GroupValues(d, key, g, col) ==
    LET ks == SortedInts({k \in DOMAIN d.rows : Cell(d, k, key) = g})
    IN  [j \in DOMAIN ks |-> Cell(d, ks[j], col)]

\* the group keys present, in groupby's sorted order
GroupKeys(d, key, order) == SelectSeq(order, LAMBDA g : g \in Range(Column(d, key)))

FracLess(a, b) == a.num * b.den < b.num * a.den

\* groupby("Room Type")["Revenue"].sum().idxmax(): the first key with the maximum
top_room_type(d) ==
    LET keys   == GroupKeys(d, RoomType, RoomTypeOrder)
        sum(g) == SumSeq(GroupValues(d, RoomType, g, Revenue))
        i      == CHOOSE i \in DOMAIN keys :
                     /\ \A j \in DOMAIN keys : sum(keys[j]) <= sum(keys[i])
                     /\ \A j \in 1..(i - 1) : sum(keys[j]) < sum(keys[i])
    IN  keys[i]

\* groupby("Room Type")["Daily Rate"].mean().idxmin(): the first key with the minimum
lowest_adr_room(d) ==
    LET keys   == GroupKeys(d, RoomType, RoomTypeOrder)
        adr(g) == Mean(GroupValues(d, RoomType, g, DailyRate))
        i      == CHOOSE i \in DOMAIN keys :
                     /\ \A j \in DOMAIN keys : ~FracLess(adr(keys[j]), adr(keys[i]))
                     /\ \A j \in 1..(i - 1) : FracLess(adr(keys[i]), adr(keys[j]))
    IN  keys[i]

\* line 490: the month of the largest monthly revenue, "N/A" for no month
best_month(d) ==
    LET keys   == GroupKeys(d, Month, MonthOrder)
        sum(g) == SumSeq(GroupValues(d, Month, g, Revenue))
    IN  IF keys = <<>> THEN "N/A"
        ELSE keys[CHOOSE i \in DOMAIN keys :
                     /\ \A j \in DOMAIN keys : sum(keys[j]) <= sum(keys[i])
                     /\ \A j \in 1..(i - 1) : sum(keys[j]) < sum(keys[i])]

NoInsights == [top_room_type |-> <<>>, lowest_adr_room |-> <<>>, best_month |-> <<>>]

\* idxmax / idxmin of an empty Series raise ValueError (lines 461 and 475)
InsightsRaise(filtered) == GroupKeys(filtered, RoomType, RoomTypeOrder) = <<>>

derive_insights(filtered) ==
    [top_room_type   |-> <<top_room_type(filtered)>>,
     lowest_adr_room |-> <<lowest_adr_room(filtered)>>,
     best_month      |-> <<best_month(filtered)>>]

-----------------------------------------------------------------------------
(* One run of the script (lines 213-562).                                  *)

\* the state a run leaves when it stops before the sidebar is drawn
Stopped(file, c, ran, where, miss, warn, d) ==
    [f |-> file, cache |-> c, loaderRan |-> ran, stage |-> where,
     missing_columns |-> miss, warning |-> warn, df |-> d,
     date_range |-> <<>>, selected_room_types |-> Todos, selected_guests |-> Todos,
     df_filtered |-> NoTable, kpis |-> NoKpis, insights |-> NoInsights]

\* st.cache_data: the stored value on a hit, the body of load_dataframe on a miss
cached_load(file, c) == IF file \in DOMAIN c THEN c[file] ELSE load_dataframe(file)

\* a cache that stores nothing
cache_after_NeverStores(file, c, L) == c

\* st.cache_data stores what a call returns; one ended by st.stop() returns nothing
cache_after(file, c, L) ==
    IF file \notin DOMAIN c /\ L.outcome = "ok" THEN c @@ (file :> L) ELSE c

\* The run of the script for source `src` (<<>>: nothing uploaded), cache `c`
\* and the widget values dr, srt, sg (defaults: the widgets' default values
\* are taken instead); clicked: the run was started by the refresh button.
RunScript(src, c, defaults, dr, srt, sg, clicked) ==
    IF src = <<>>
    THEN Stopped(src, c, FALSE, "awaiting_upload", <<>>, 0, NoTable)
    ELSE
    LET file == src[1]
        ran  == file \notin DOMAIN c
        L    == cached_load(file, c)
        c1   == cache_after(file, c, L)
    IN  IF L.outcome # "ok"
        THEN Stopped(src, c1, ran, L.outcome, L.missing, 0, NoTable)
        ELSE IF IsEmpty(L.df)
        THEN Stopped(src, c1, ran, "NoData", <<>>, L.warning, L.df)
        ELSE
        LET d        == L.df
            range    == IF defaults THEN <<min_date(d), max_date(d)>> ELSE dr
            rooms    == IF defaults THEN Todos ELSE srt
            guests   == IF defaults THEN Todos ELSE sg
            filtered == apply_filters(d, range, rooms, guests)
            raised   == InsightsRaise(filtered)
        IN  [f |-> src,
             cache |-> IF clicked /\ ~raised THEN <<>> ELSE c1,
             loaderRan |-> ran,
             stage |-> IF raised THEN "ValueError" ELSE "rendered",
             missing_columns |-> <<>>,
             warning |-> L.warning,
             df |-> d,
             date_range |-> range,
             selected_room_types |-> rooms,
             selected_guests |-> guests,
             df_filtered |-> filtered,
             kpis |-> compute_kpis(filtered, d),
             insights |-> IF raised THEN NoInsights ELSE derive_insights(filtered)]

\* the variables after a run, the record `r`
Becomes(r) ==
    \E x \in {r} :
        /\ f' = x.f
        /\ cache' = x.cache
        /\ loaderRan' = x.loaderRan
        /\ stage' = x.stage
        /\ missing_columns' = x.missing_columns
        /\ warning' = x.warning
        /\ df' = x.df
        /\ date_range' = x.date_range
        /\ selected_room_types' = x.selected_room_types
        /\ selected_guests' = x.selected_guests
        /\ df_filtered' = x.df_filtered
        /\ kpis' = x.kpis
        /\ insights' = x.insights

\* the variables before any run, with source `src`
Fresh(src, where) ==
    /\ uploads = 0
    /\ f = src
    /\ cache = <<>>
    /\ loaderRan = FALSE
    /\ stage = where
    /\ missing_columns = <<>>
    /\ warning = 0
    /\ df = NoTable
    /\ date_range = <<>>
    /\ selected_room_types = Todos
    /\ selected_guests = Todos
    /\ df_filtered = NoTable
    /\ kpis = NoKpis
    /\ insights = NoInsights

-----------------------------------------------------------------------------
(* The explored inputs.                                                    *)

\* a spreadsheet whose columns are `layout` (raw header, reservation field)
\* and whose rows are the reservations `rs`
MkFile(layout, rs) ==
    [headers |-> [i \in DOMAIN layout |-> layout[i].raw],
     rows    |-> [k \in DOMAIN rs |-> [i \in DOMAIN layout |-> rs[k][layout[i].field]]]]

Column6(a, d, r, t, g, m) ==
    <<[raw |-> a, field |-> "arr"], [raw |-> d, field |-> "dep"], [raw |-> r, field |-> "rate"],
      [raw |-> t, field |-> "rtype"], [raw |-> g, field |-> "guests"], [raw |-> m, field |-> "room"]>>

CanonicalLayout == Column6(ArrivalDate, DepartureDate, DailyRate, RoomType, NoOfGuests, Room)

\* the header row ["Check-In","Check-Out","ADR","Type","Pax","Quarto"]
SynonymLayout ==
    Column6(<<"C","h","e","c","k","-","I","n">>, <<"C","h","e","c","k","-","O","u","t">>,
            <<"A","D","R">>, <<"T","y","p","e">>, <<"P","a","x">>, <<"Q","u","a","r","t","o">>)

\* raw spellings a file may use for each concept, as typed in the sheet
RawSpellings == <<
    <<ArrivalDate, <<" ","c","h","e","c","k","-","i","n"," ">> >>,
    <<DepartureDate, <<"C","H","E","C","K","O","U","T">> >>,
    <<DailyRate, <<"A","D","R">> >>,
    <<RoomType, <<"t","y","p","e">> >>,
    <<<<"N","o"," ","o","f"," ","G","u","e","s","t","s">>, <<"P","a","x">> >>,
    <<Room, <<"q","u","a","r","t","o"," ">> >> >>

\* every choice, per concept, of one raw spelling or of no column at all (0),
\* with at least one column
ChosenLayouts ==
    {LET present == SelectSeq(<<1, 2, 3, 4, 5, 6>>, LAMBDA i : ch[i] # 0)
     IN  [j \in DOMAIN present |->
             [raw |-> RawSpellings[present[j]][ch[present[j]]],
              field |-> CanonicalLayout[present[j]].field]]
     : ch \in {c \in [1..6 -> 0..2] : \E i \in 1..6 : c[i] # 0}}

\* the canonical header row with one column under each accepted synonym
OneSynonymLayouts ==
    UNION {{[i \in 1..6 |-> [raw |-> IF i = c THEN aliases[c].possible_names[a]
                                        ELSE CanonicalLayout[i].raw,
                             field |-> CanonicalLayout[i].field]]
            : a \in DOMAIN aliases[c].possible_names} : c \in 1..6}

\* two synonyms of one concept in one sheet, the lower-priority one first,
\* and a column no concept uses
TwoSynonymLayout ==
    <<[raw |-> <<"C","h","e","c","k","-","I","n">>, field |-> "dep"],
      [raw |-> <<"A","r","r","i","v","a","l">>, field |-> "arr"],
      [raw |-> DepartureDate, field |-> "dep"],
      [raw |-> <<"R","a","t","e">>, field |-> "rate"],
      [raw |-> <<"N","o","t","e","s">>, field |-> "guests"],
      [raw |-> RoomType, field |-> "rtype"],
      [raw |-> NoOfGuests, field |-> "guests"],
      [raw |-> Room, field |-> "room"]>>

Layouts == ChosenLayouts \cup OneSynonymLayouts \cup {SynonymLayout, TwoSynonymLayout}

Reservation(a, d, r, t, g, m) ==
    [arr |-> a, dep |-> d, rate |-> r, rtype |-> t, guests |-> g, room |-> m]

\* reservations for the loading: three rates on valid dates, and a blank,
\* a reversed and an equal date pair
LoadPool ==
    {Reservation(Day(1), Day(3), r, Standard, 2, 101) : r \in {100, 150, 200}} \cup
    {Reservation(Day(1), Day(2), 100, Standard, 2, 101),
     Reservation(NaT, Day(2), 100, Standard, 2, 101),
     Reservation(Day(3), Day(2), 100, Standard, 2, 101),
     Reservation(Day(3), Day(3), 200, Standard, 2, 101)}

\* reservations for the filters: two arrival days in two months with a gap
\* between them, two room types, two guest counts, one rate
FilterPool ==
    {Reservation(Day(1), Day(2), 100, Standard, 1, 101),
     Reservation(Day(1), Day(3), 100, Suite, 2, 201),
     Reservation(Day(32), Day(33), 100, Suite, 1, 202),
     Reservation(Day(32), Day(34), 100, Standard, 2, 101)}

\* the three rows of the loading scenario: 2024-01-01..03 at 100,
\* 2024-01-05..04 at 200 (invalid order), 2024-02-01..02 at 150
ScenarioRows ==
    <<Reservation(Day(1), Day(3), 100, Standard, 2, 101),
      Reservation(Day(5), Day(4), 200, Standard, 2, 101),
      Reservation(Day(32), Day(33), 150, Suite, 1, 201)>>

ScenarioFile == MkFile(CanonicalLayout, ScenarioRows)

\* sheets whose date cells carry a time of day: a departure at noon of the
\* arrival day, and an arrival at noon two days before the departure
StayRows ==
    <<Reservation(Day(1), Noon(1), 100, Standard, 1, 101),
      Reservation(Noon(1), Day(3), 100, Suite, 2, 201)>>

StayFiles ==
    {MkFile(CanonicalLayout, rs) : rs \in {<<StayRows[1]>>, <<StayRows[2]>>, StayRows}}

LoadFiles ==
    {MkFile(l, rs) : l \in Layouts, rs \in {<<>>, <<Reservation(Day(1), Day(3), 100, Suite, 2, 201)>>}}
    \cup {MkFile(l, rs) : l \in {CanonicalLayout, TwoSynonymLayout},
                          rs \in SeqsUpTo(LoadPool, MaxLoadRows)}
    \cup {ScenarioFile} \cup StayFiles

FilterFiles ==
    {MkFile(CanonicalLayout, rs) : rs \in SeqsUpTo(FilterPool, MaxRows)} \cup StayFiles

\* the days the date picker is tried with
DayPicks == {1, 2, 32}

\* the values the date_input can return: one day (a range being picked) or
\* start <= end, within [min_date, max_date]
DateRanges(d) ==
    LET days == {x \in DayPicks : min_date(d) <= x /\ x <= max_date(d)}
    IN  {<<x>> : x \in days} \cup {<<p[1], p[2]>> : p \in {q \in days \X days : q[1] <= q[2]}}

-----------------------------------------------------------------------------
(* The dashboard on one file: first run, then filter changes.              *)

Init == \E file \in FilterFiles : Fresh(<<file>>, "idle")

\* the first run of the script, widgets at their defaults
FirstRun ==
    /\ stage = "idle"
    /\ Becomes(RunScript(f, cache, TRUE, <<>>, Todos, Todos, FALSE))
    /\ UNCHANGED uploads

\* the sidebar was drawn by the last run
SidebarShown == stage \in {"rendered", "ValueError"}

ChangeDateRange ==
    /\ SidebarShown
    /\ \E dr \in DateRanges(df) \ {date_range} :
          Becomes(RunScript(f, cache, FALSE, dr, selected_room_types, selected_guests, FALSE))
    /\ UNCHANGED uploads

ChangeRoomTypes ==
    /\ SidebarShown
    /\ \E srt \in Selections(room_types(df)) \ {selected_room_types} :
          Becomes(RunScript(f, cache, FALSE, date_range, srt, selected_guests, FALSE))
    /\ UNCHANGED uploads

ChangeGuests ==
    /\ SidebarShown
    /\ \E sg \in Selections(guest_counts(df)) \ {selected_guests} :
          Becomes(RunScript(f, cache, FALSE, date_range, selected_room_types, sg, FALSE))
    /\ UNCHANGED uploads

Next == FirstRun \/ ChangeDateRange \/ ChangeRoomTypes \/ ChangeGuests

Spec == Init /\ [][Next]_vars

-----------------------------------------------------------------------------
(* load_dataframe on every explored file: the first run alone.             *)

InitLoad == \E file \in LoadFiles : Fresh(<<file>>, "idle")

NextLoad == FirstRun

SpecLoad == InitLoad /\ [][NextLoad]_vars


-----------------------------------------------------------------------------
(* A session: uploads, filter changes and the refresh button, on the       *)
(* process-wide cache.                                                     *)

\* a sheet without any Daily Rate column
MissingRateLayout ==
    <<CanonicalLayout[1], CanonicalLayout[2], CanonicalLayout[4], CanonicalLayout[5],
      CanonicalLayout[6]>>

SessionFiles ==
    {MkFile(CanonicalLayout, <<Reservation(Day(1), Day(2), 100, Standard, 1, 101),
                               Reservation(Day(32), Day(34), 100, Suite, 1, 201)>>),
     MkFile(SynonymLayout, <<Reservation(Day(1), Day(3), 150, Suite, 2, 201)>>),
     MkFile(MissingRateLayout, <<Reservation(Day(1), Day(3), 150, Suite, 2, 201)>>),
     ScenarioFile}

\* the page is opened with no Reservations.xlsx beside the script: the first
\* run ends at "Aguardando upload"
InitSession == Fresh(<<>>, "awaiting_upload")

\* a file is uploaded; the sidebar widgets start from their defaults
Upload ==
    /\ uploads < MaxUploads
    /\ uploads' = uploads + 1
    /\ \E file \in SessionFiles :
          Becomes(RunScript(<<file>>, cache, TRUE, <<>>, Todos, Todos, FALSE))

\* the refresh button, which only a run that reached line 561 has drawn:
\* the script runs again and st.cache_data.clear() ends it
Refresh ==
    /\ stage = "rendered"
    /\ Becomes(RunScript(f, cache, FALSE, date_range, selected_room_types, selected_guests, TRUE))
    /\ UNCHANGED uploads

NextSession == Upload \/ ChangeDateRange \/ ChangeRoomTypes \/ ChangeGuests \/ Refresh

SpecSession == InitSession /\ [][NextSession]_vars


-----------------------------------------------------------------------------
(* Properties of the filters, the KPIs and the insights (Spec).            *)

\* what a filter dimension lets through, stated per row
DateLets(k) ==
    Len(date_range) # 2 \/ (/\ date_range[1] <= date_of(Cell(df, k, ArrivalDate))
                            /\ date_of(Cell(df, k, ArrivalDate)) <= date_range[2])

\* a selection that holds neither "Todos" nor any value
Deselected == [todos |-> FALSE, values |-> {}]

SelectionLets(selected, v) == selected.todos \/ selected.values = {} \/ v \in selected.values

FilteredIsEmpty == SidebarShown /\ Len(df_filtered.rows) = 0

\* C1, as claimed: an empty explicit selection of room types or of guest
\* counts leaves no row in the Filtered Table.
C1_EmptySelectionGivesEmptyTable ==
    (SidebarShown /\ (selected_room_types = Deselected \/ selected_guests = Deselected))
        => Len(df_filtered.rows) = 0

\* C1, amended: an empty explicit selection restricts nothing on its dimension:
\* the Filtered Table holds exactly the rows of the Canonical Table that the
\* date range and the other selection let through.
C1_EmptySelectionRestrictsNothing ==
    (SidebarShown /\ (selected_room_types = Deselected \/ selected_guests = Deselected))
        => /\ df_filtered.columns = df.columns
           /\ df_filtered.index =
                  LET ks == SortedInts({k \in DOMAIN df.rows :
                                /\ DateLets(k)
                                /\ SelectionLets(selected_room_types, Cell(df, k, RoomType))
                                /\ SelectionLets(selected_guests, Cell(df, k, NoOfGuests))})
                  IN  [j \in DOMAIN ks |-> df.index[ks[j]]]

\* C1 witness: everything deselected in the room types, and both rows of a
\* two-row Canonical Table are in the Filtered Table.
C1_Witness ==
    /\ stage = "rendered"
    /\ selected_room_types = Deselected
    /\ Len(df.rows) = 2
    /\ Len(df_filtered.rows) = 2

\* C2, as claimed: on an empty Filtered Table of a non-empty Canonical Table
\* each of the six KPIs is 0.
C2_EmptyTableKpisAreZero ==
    (FilteredIsEmpty /\ Len(df.rows) > 0)
        => /\ kpis.total_revenue = 0
           /\ kpis.total_reservations = 0
           /\ IsZero(kpis.avg_daily_rate)
           /\ IsZero(kpis.avg_length_stay)
           /\ IsZero(kpis.occupancy_rate)
           /\ IsZero(kpis.revpar)

\* C3, as claimed: on an empty Filtered Table the run reaches its end and
\* each of the three insights has been given a value (a "no data" one).
C3_EmptyTableInsightsNoData ==
    FilteredIsEmpty
        => /\ stage = "rendered"
           /\ insights.top_room_type # <<>>
           /\ insights.lowest_adr_room # <<>>
           /\ insights.best_month # <<>>

\* the Filtered Table holds rows of the Canonical Table, each once
IsSubTable(sub, d) ==
    /\ sub.columns = d.columns
    /\ \A j \in DOMAIN sub.rows :
          \E k \in DOMAIN d.rows : d.index[k] = sub.index[j] /\ d.rows[k] = sub.rows[j]
    /\ \A i, j \in DOMAIN sub.rows : sub.index[i] = sub.index[j] => i = j

\* C10: after any filter changes the Filtered Table is a subset of the
\* Canonical Table, the occupancy is |Filtered| / |Canonical| (shown in
\* percent) and lies between 0 and 1, and no filter change alters the
\* Canonical Table.
C10_FilteredWithinCanonical ==
    /\ [](SidebarShown =>
            /\ IsSubTable(df_filtered, df)
            /\ kpis.occupancy_rate.den = Len(df.rows)
            /\ kpis.occupancy_rate.num = 100 * Len(df_filtered.rows)
            /\ 0 <= kpis.occupancy_rate.num
            /\ kpis.occupancy_rate.num <= 100 * kpis.occupancy_rate.den)
    /\ [][stage # "idle" => df' = df]_vars

\* C10 witness: a filter change has left one of two rows in the Filtered Table.
C10_Witness ==
    /\ stage = "rendered"
    /\ date_range # <<min_date(df), max_date(df)>>
    /\ Len(df.rows) = 2
    /\ Len(df_filtered.rows) = 1


-----------------------------------------------------------------------------
(* Properties of load_dataframe (SpecLoad).                                *)

\* load_dataframe returned a table in the last run
Loaded == stage \in {"rendered", "ValueError", "NoData"}

NormHeaders(file) == [c \in DOMAIN file.headers |-> NormalizeHeader(file.headers[c])]

\* the concepts none of whose synonyms is a normalised header of the file
Unmatched(file) ==
    {aliases[i].canonical_name :
        i \in {j \in DOMAIN aliases :
                  Range(aliases[j].possible_names) \cap Range(NormHeaders(file)) = {}}}

\* the trim of a post-validation table v into d, with percentiles p1 and p99
\* (x 100): no row strictly between them is removed
TrimKeepsInside(v, d, p1, p99) ==
    \A k \in DOMAIN v.rows :
        (p1 < 100 * Cell(v, k, DailyRate) /\ 100 * Cell(v, k, DailyRate) < p99)
            => v.index[k] \in Range(d.index)

\* every row left is in [p1, p99]
SurvivorsInBand(d, p1, p99) ==
    \A j \in DOMAIN d.rows :
        p1 <= 100 * Cell(d, j, DailyRate) /\ 100 * Cell(d, j, DailyRate) <= p99

ScenarioLoaded == f = <<ScenarioFile>> /\ stage # "idle"

HaltsOnMissingColumns(unmatched) ==
    /\ stage = "MissingColumns"
    /\ Range(missing_columns) = unmatched
    /\ Len(missing_columns) = Cardinality(unmatched)
    /\ cache = <<>>
    /\ df = NoTable
    /\ df_filtered = NoTable
    /\ kpis = NoKpis

\* C6, as claimed: a file with an unmatched concept halts with MissingColumns
\* naming exactly the unmatched concepts; nothing is produced, cached or drawn.
C6_UnmatchedConceptHalts ==
    stage # "idle" =>
        LET unmatched == Unmatched(f[1])
        IN  unmatched # {} => HaltsOnMissingColumns(unmatched)

\* C6, amended: a file that is not empty (it has a data row) and has an
\* unmatched concept halts with MissingColumns naming exactly the unmatched
\* concepts; nothing is produced, cached or drawn.  An empty file halts with
\* EmptyFile before its headers are looked at.
C6_UnmatchedConceptHaltsNonEmptyFile ==
    stage # "idle" =>
        LET unmatched == Unmatched(f[1])
        IN  IF IsEmpty(read_excel(f[1]))
            THEN stage = "EmptyFile" /\ cache = <<>> /\ df = NoTable
            ELSE unmatched # {} => HaltsOnMissingColumns(unmatched)

\* C6 witness: a file with data and every concept but Daily Rate has halted.
C6_Witness ==
    /\ stage = "MissingColumns"
    /\ Len(f[1].rows) > 0
    /\ missing_columns = <<DailyRate>>

\* the file has exactly one column per concept, under an accepted synonym
UsesOneSynonymEach(file) ==
    \A i \in DOMAIN aliases :
        Cardinality({c \in DOMAIN file.headers :
                        NormHeaders(file)[c] \in Range(aliases[i].possible_names)}) = 1

\* the same file with each of these columns under its canonical name
Twin(file) ==
    [file EXCEPT !.headers =
        [c \in DOMAIN file.headers |->
            IF \E i \in DOMAIN aliases : NormHeaders(file)[c] \in Range(aliases[i].possible_names)
            THEN aliases[CHOOSE i \in DOMAIN aliases :
                            NormHeaders(file)[c] \in Range(aliases[i].possible_names)].canonical_name
            ELSE file.headers[c]]]

\* the column of a file with normalised headers `norm` that concept i is bound
\* to: the one under the first synonym, in priority order, that is in norm
BoundColumn(norm, i) ==
    LET poss == aliases[i].possible_names
        a0   == CHOOSE a \in DOMAIN poss :
                   /\ poss[a] \in Range(norm)
                   /\ \A b \in 1..(a - 1) : poss[b] \notin Range(norm)
    IN  CHOOSE c \in DOMAIN norm : norm[c] = poss[a0]

\* C7: each concept is bound to the column under the first present synonym of
\* its list, and a file with one accepted synonym per concept loads to the
\* same result as the same rows under the canonical header names.
C7_AliasResolution ==
    /\ Loaded =>
          LET norm == NormHeaders(f[1])
          IN  \A i \in DOMAIN aliases :
                LET c0 == BoundColumn(norm, i)
                IN  /\ df.columns[c0] = aliases[i].canonical_name
                    /\ Cardinality({c \in DOMAIN df.columns :
                                       df.columns[c] = aliases[i].canonical_name}) = 1
                    /\ \A j \in DOMAIN df.rows :
                          df.rows[j][c0] = f[1].rows[df.index[j] + 1][c0]
    /\ (stage # "idle" /\ UsesOneSynonymEach(f[1])) =>
          LET twin == load_dataframe(Twin(f[1]))
          IN  /\ stage # "MissingColumns"
              /\ Loaded <=> twin.outcome = "ok"
              /\ Loaded => (df = twin.df /\ warning = twin.warning)

\* C7 witness: the header row Check-In, Check-Out, ADR, Type, Pax, Quarto
\* has been loaded into a table of one row.
C7_Witness ==
    /\ stage = "rendered"
    /\ f[1].headers = MkFile(SynonymLayout, <<>>).headers
    /\ Len(df.rows) = 1
    /\ Twin(f[1]) # f[1]

\* a row of the renamed sheet has both dates; its departure is after its arrival
Dated(sheet, k) == Cell(sheet, k, ArrivalDate) # NaT /\ Cell(sheet, k, DepartureDate) # NaT
Ordered(sheet, k) == Cell(sheet, k, DepartureDate) > Cell(sheet, k, ArrivalDate)

-----------------------------------------------------------------------------
(* Properties of the load cache (SpecSession).                             *)

Widgets == <<date_range, selected_room_types, selected_guests>>

\* the step is a run started by a filter change / by the refresh button
FilterChanged == uploads' = uploads /\ Widgets' # Widgets
RefreshClicked == uploads' = uploads /\ Widgets' = Widgets

\* the body of load_dataframe runs exactly when the file of the run is not
\* in the cache; a returned table is stored; the refresh button empties the
\* cache, and the run after that loads the file again
CacheDiscipline ==
    /\ loaderRan' <=> (f' # <<>> /\ f'[1] \notin DOMAIN cache)
    /\ (Loaded' /\ ~RefreshClicked) => f'[1] \in DOMAIN cache'
    /\ RefreshClicked => cache' = <<>>
    /\ (cache = <<>> /\ f' # <<>>) => loaderRan'

-----------------------------------------------------------------------------
(* Properties of the derived stay values (Spec).                           *)

\* n is the number of whole days from timestamp a to timestamp d
WholeDays(n, a, d) == n * TicksPerDay <= d - a /\ d - a < (n + 1) * TicksPerDay

\* the row of table d has the nights and the revenue of its dates and rate
StayDerived(d, k) ==
    /\ WholeDays(Cell(d, k, Nights), Cell(d, k, ArrivalDate), Cell(d, k, DepartureDate))
    /\ Cell(d, k, Revenue) = Cell(d, k, DailyRate) * Cell(d, k, Nights)

\* C11, as claimed: every row of the Canonical Table has nights = the whole
\* days from arrival to departure, revenue = daily rate * nights and
\* nights >= 1, and after any filter changes the Canonical Table is the table
\* that was loaded and every row of the Filtered Table carries these values.
C11_NightsAndRevenue ==
    SidebarShown =>
        LET loaded == load_dataframe(f[1]).df
        IN  /\ df = loaded
            /\ \A k \in DOMAIN df.rows :
                  StayDerived(df, k) /\ Cell(df, k, Nights) >= 1
            /\ \A j \in DOMAIN df_filtered.rows :
                  \E k \in DOMAIN loaded.rows :
                      /\ loaded.index[k] = df_filtered.index[j]
                      /\ Cell(df_filtered, j, Nights) = Cell(loaded, k, Nights)
                      /\ Cell(df_filtered, j, Revenue) = Cell(loaded, k, Revenue)

\* C11 without the lower bound of the nights, which is the part that fails
C11_NightsAndRevenueFromZero ==
    SidebarShown =>
        LET loaded == load_dataframe(f[1]).df
        IN  /\ df = loaded
            /\ \A k \in DOMAIN df.rows :
                  StayDerived(df, k) /\ Cell(df, k, Nights) >= 0
            /\ \A j \in DOMAIN df_filtered.rows :
                  \E k \in DOMAIN loaded.rows :
                      /\ loaded.index[k] = df_filtered.index[j]
                      /\ Cell(df_filtered, j, Nights) = Cell(loaded, k, Nights)
                      /\ Cell(df_filtered, j, Revenue) = Cell(loaded, k, Revenue)

\* a filter change has left in the Filtered Table a stay that departs at noon
\* of its arrival day
C11_Witness ==
    /\ stage = "rendered"
    /\ selected_guests # Todos
    /\ \E j \in DOMAIN df_filtered.rows :
          /\ date_of(Cell(df_filtered, j, DepartureDate)) = date_of(Cell(df_filtered, j, ArrivalDate))
          /\ Cell(df_filtered, j, Nights) = 0
          /\ Cell(df_filtered, j, Revenue) = 0

=============================================================================
